---- MODULE Spec2Model ----
(***************************************************************************)
(* Code generation of the Huff compiler (huff_codegen/src/lib.rs):         *)
(* macro expansion (macro_to_bytecode), argument bubbling                  *)
(* (bubble_arg_call), jump table layout (gen_table_bytecode) and the       *)
(* artifact driver (churn, abi_gen).                                       *)
(*                                                                         *)
(* A hex string is a sequence of nibbles 0..15; the placeholder character  *)
(* 'x' is the nibble X and the upper-case digits A..F are 26..31.  Offsets *)
(* are in bytes, as in the source.                                         *)
(***************************************************************************)
EXTENDS Integers, Sequences, FiniteSets, TLC

VARIABLES
    input,      \* the family and entry body of the Contract handed to the generator
    pc,         \* "idle" | "expanding" | "done"
    entry,      \* the entry macro being generated: "none" | "MAIN" | "CONSTRUCTOR"
    stack,      \* the active calls of macro_to_bytecode, innermost last
    scope,      \* macro_to_bytecode's `scope` argument (macro names)
    mis,        \* macro_to_bytecode's `mis` argument
    result,     \* what generate_*_bytecode returned
    artifact,   \* Codegen.artifact
    last        \* the most recent churn / abi_gen call: its arguments and what it returned

vars == <<input, pc, entry, stack, scope, mis, result, artifact, last>>

---------------------------------------------------------------------------
(* Bounds *)

\* longest body of the entry macro (MAIN / CONSTRUCTOR)
MaxBody == 3

---------------------------------------------------------------------------
(* Hex strings and formatting *)

X == 16

RECURSIVE HexDigits(_)
HexDigits(n) ==
    IF n < 16 THEN <<n>> ELSE Append(HexDigits(n \div 16), n % 16)

RECURSIVE LeftPad(_, _)
LeftPad(h, w) == IF Len(h) >= w THEN h ELSE LeftPad(<<0>> \o h, w)

\* format!("{:0wx}", n): at least w hex digits
FormatHex(n, w) == LeftPad(HexDigits(n), w)

format_even_bytes(h) == IF Len(h) % 2 = 1 THEN <<0>> \o h ELSE h

pad_n_bytes(h, n) == LeftPad(h, 2 * n)

\* the 32-byte value v without its leading zero bytes ("00" for zero)
bytes32_to_string(v) == format_even_bytes(HexDigits(v))

RECURSIVE ParseDigits(_, _)
ParseDigits(h, acc) ==
    IF h = <<>> THEN acc ELSE ParseDigits(Tail(h), 10 * acc + Head(h))

\* str::parse::<usize>(): the characters read as a decimal number
ParseUsize(h) ==
    IF h = <<>> \/ \E i \in 1..Len(h) : h[i] > 9
    THEN [ok |-> FALSE, v |-> 0]
    ELSE [ok |-> TRUE, v |-> ParseDigits(h, 0)]

\* format!("{:02x}{}", 95 + hex.len() / 2, hex)
PushBytes(h) == FormatHex(95 + Len(h) \div 2, 2) \o h

Push2 == <<6, 1>>
Jumpdest == <<5, 11>>
Placeholder == Push2 \o <<X, X, X, X>>

\* Opcode::from_str followed by Opcode::to_string, for the mnemonics used
OpcodeNames == {"add", "jump"}
OpcodeOf(name) == IF name = "add" THEN <<0, 1>> ELSE <<5, 6>>

RECURSIVE Concat(_)
Concat(bs) == IF bs = <<>> THEN <<>> ELSE Head(bs).b \o Concat(Tail(bs))

ByteLen(bs) == Len(Concat(bs)) \div 2

---------------------------------------------------------------------------
(* The AST *)

Item(ty, name, args, b) == [ty |-> ty, name |-> name, args |-> args, b |-> b]
IBytes(b) == Item("Bytes", "", <<>>, b)
IConstant(n) == Item("Constant", n, <<>>, <<>>)
IInvoke(n, args) == Item("MacroInvocation", n, args, <<>>)
ILabel(n) == Item("Label", n, <<>>, <<>>)
ILabelCall(n) == Item("LabelCall", n, <<>>, <<>>)
ICodesize(n) == Item("Codesize", n, <<>>, <<>>)
ITablesize(n) == Item("Tablesize", n, <<>>, <<>>)
ITablestart(n) == Item("Tablestart", n, <<>>, <<>>)
IArgCall(n) == Item("ArgCall", n, <<>>, <<>>)

Arg(kind, v, name) == [kind |-> kind, v |-> v, name |-> name]
ALiteral(v) == Arg("Literal", v, "")
AArgCall(n) == Arg("ArgCall", 0, n)
AIdent(n) == Arg("Ident", 0, n)

Macro(name, params, ir) == [name |-> name, parameters |-> params, ir |-> ir]
Const(name, kind, v) == [name |-> name, kind |-> kind, v |-> v]
TStmt(ty, label) == [ty |-> ty, label |-> label]
Table(name, kind, size, stmts) ==
    [name |-> name, kind |-> kind, size |-> size, statements |-> stmts]

\* the first element of seq satisfying name = n, as a sequence of 0 or 1 elements
FindByName(seq, n) ==
    LET hits == {i \in 1..Len(seq) : seq[i].name = n}
    IN IF hits = {} THEN <<>>
       ELSE <<seq[CHOOSE i \in hits : \A j \in hits : i <= j]>>

find_macro_by_name(n, c) == FindByName(c.macros, n)
find_table_by_name(n, c) == FindByName(c.tables, n)
find_constant(n, c) == FindByName(c.constants, n)

---------------------------------------------------------------------------
(* The contracts generated from *)

Push1One == <<6, 0, 0, 1>>

PackedTable(name, stmts) == Table(name, "JumpTablePacked", 2 * Len(stmts), stmts)
PaddedTable(name, stmts) == Table(name, "JumpTable", 32 * Len(stmts), stmts)
TLabel(l) == TStmt("LabelCall", l)

\* a family of contracts: the macros A(p), B(q) and C(), the constants, the tables
\* (a table's declared size is the number of its statements times the width
\* of an entry) and the items the body of the entry macro is made of
Lib(a, b, c, constants, tables, items) ==
    [a |-> a, b |-> b, c |-> c, constants |-> constants, tables |-> tables,
     items |-> items]

\* labels defined and referenced across nested and sibling invocations
LibLabels ==
    Lib(<<ILabelCall("L1"), IInvoke("B", <<>>)>>,
        <<ILabel("L2"), ILabelCall("L2"), ILabelCall("L1")>>,
        <<>>,
        <<>>, <<>>,
        {IBytes(Push1One), ILabel("L1"), ILabelCall("L1"), ILabelCall("L2"),
         IInvoke("A", <<>>), IInvoke("B", <<>>)})

\* argument references in the entry macro
LibArgRefs ==
    Lib(<<ILabel("L1"), ILabel("L2")>>,
        <<IBytes(Push1One)>>,
        <<>>,
        <<>>, <<>>,
        {ILabel("L1"), ILabelCall("L1"), IArgCall("L1"), IArgCall("L2"),
         IInvoke("A", <<>>), IInvoke("B", <<>>)})

\* arguments passed down two invocations
LibArgs ==
    Lib(<<IArgCall("p"), IInvoke("B", <<AArgCall("p")>>)>>,
        <<IArgCall("q"), IArgCall("add")>>,
        <<>>,
        <<Const("C1", "Literal", 5)>>, <<>>,
        {ILabel("L1"), IConstant("C1"), IInvoke("A", <<ALiteral(258)>>),
         IInvoke("A", <<AIdent("L1")>>), IInvoke("A", <<AArgCall("x")>>),
         IInvoke("B", <<ALiteral(0)>>)})

\* a padded and a packed table
LibTables ==
    Lib(<<ITablestart("T2"), ITablesize("T1"), ILabel("L2")>>,
        <<ILabel("L2")>>,
        <<>>,
        <<>>,
        <<PaddedTable("T1", <<TLabel("L1")>>),
          PackedTable("T2", <<TLabel("L2"), TLabel("L1")>>)>>,
        {IBytes(Push1One), ILabel("L1"), ITablestart("T1"), ITablestart("T2"),
         IInvoke("A", <<>>), IInvoke("B", <<>>)})

\* packed tables, one with a statement that is no label call
LibTableStmts ==
    Lib(<<ILabel("L2")>>,
        <<ITablestart("T1")>>,
        <<>>,
        <<>>,
        <<PackedTable("T2", <<TLabel("L1"), TLabel("L1")>>),
          PackedTable("T1", <<TLabel("L1"), TStmt("Literal", "")>>)>>,
        {ILabel("L1"), ILabelCall("L1"), ITablestart("T1"), ITablestart("T2"),
         ITablestart("T3"), IInvoke("B", <<>>)})

\* the byte length of the macro C of LibCodesize: its size takes two bytes
BigCode == 256

Zeros(n) == [i \in 1..n |-> 0]

\* __codesize of macros that define labels, jump and use tables
LibCodesize ==
    Lib(<<ICodesize("B"), IArgCall("p")>>,
        <<ILabel("L2"), ILabelCall("L1"), ITablestart("T2"), IConstant("C1")>>,
        <<IBytes(Zeros(2 * BigCode))>>,
        <<Const("C1", "Literal", 5)>>,
        <<PackedTable("T2", <<TLabel("L1")>>)>>,
        {IBytes(Push1One), ILabel("L1"), ICodesize("A"), ICodesize("B"),
         ICodesize("C"), IInvoke("A", <<ALiteral(2)>>)})

\* invocations and __codesize calls of the macro Z, which is not defined
LibMissing ==
    Lib(<<IBytes(Push1One), IInvoke("Z", <<>>)>>,
        <<IInvoke("A", <<>>)>>,
        <<ICodesize("Z")>>,
        <<>>, <<>>,
        {IInvoke("Z", <<>>), ICodesize("Z"), IInvoke("A", <<>>), IInvoke("B", <<>>),
         ICodesize("A"), IInvoke("C", <<>>)})

\* names that are a constant, an opcode and a parameter at once: A(add, p), B(jump)
LibOrder ==
    Lib(<<IArgCall("add"), IArgCall("p")>>,
        <<IArgCall("jump"), IArgCall("x")>>,
        <<>>,
        <<Const("add", "Literal", 7)>>, <<>>,
        {ILabel("x"), IArgCall("add"), IArgCall("jump"), IArgCall("x"),
         IInvoke("A", <<ALiteral(1), ALiteral(2)>>), IInvoke("B", <<ALiteral(3)>>)})

\* a contract without MAIN and a contract without CONSTRUCTOR
LibNoEntry == Lib(<<>>, <<>>, <<>>, <<>>, <<>>, {})

LibNames == {"labels", "argrefs", "args", "tables", "tablestmts", "codesize",
             "missing", "order", "nomain", "noconstructor"}

LibOf(n) ==
    CASE n = "labels" -> LibLabels
      [] n = "argrefs" -> LibArgRefs
      [] n = "args" -> LibArgs
      [] n = "tables" -> LibTables
      [] n = "tablestmts" -> LibTableStmts
      [] n = "codesize" -> LibCodesize
      [] n = "missing" -> LibMissing
      [] n = "order" -> LibOrder
      [] OTHER -> LibNoEntry

\* the parameters of the macros A and B
LibParams(n) ==
    IF n = "order" THEN [a |-> <<"add", "p">>, b |-> <<"jump">>]
    ELSE [a |-> <<"p">>, b |-> <<"q">>]

\* the entry macros the contract defines
LibEntries(n) ==
    CASE n = "nomain" -> <<"CONSTRUCTOR">>
      [] n = "noconstructor" -> <<"MAIN">>
      [] OTHER -> <<"MAIN", "CONSTRUCTOR">>

Bodies(lib) == UNION {[1..n -> lib.items] : n \in 0..MaxBody}

\* the input: a family and the body of the entry macro
Inputs == UNION {{[lib |-> n, body |-> body] : body \in Bodies(LibOf(n))} : n \in LibNames}

\* the Contract of an input; MAIN and CONSTRUCTOR have the same body
Contract(in) ==
    [macros |-> [i \in 1..Len(LibEntries(in.lib)) |->
                    Macro(LibEntries(in.lib)[i], <<>>, in.body)]
                \o <<Macro("A", LibParams(in.lib).a, LibOf(in.lib).a),
                      Macro("B", LibParams(in.lib).b, LibOf(in.lib).b),
                      Macro("C", <<>>, LibOf(in.lib).c)>>,
     constants |-> LibOf(in.lib).constants,
     tables |-> LibOf(in.lib).tables]

\* the Contract handed to the generator
contract == Contract(input)

---------------------------------------------------------------------------
(* Maps (HashMap) *)

EmptyMap == [k \in {} |-> 0]

\* HashMap::insert
MapInsert(m, k, v) == [x \in DOMAIN m \cup {k} |-> IF x = k THEN v ELSE m[x]]

\* MapExtend keeping the entries m already has
MapExtend_KeepFirst(m, g) ==
    [x \in DOMAIN m \cup DOMAIN g |-> IF x \in DOMAIN m THEN m[x] ELSE g[x]]

\* HashMap::extend: the entries of g replace those of m
MapExtend(m, g) ==
    [x \in DOMAIN m \cup DOMAIN g |-> IF x \in DOMAIN g THEN g[x] ELSE m[x]]

Jump(label, bytecode_index) == [label |-> label, bytecode_index |-> bytecode_index]
Entry(off, b) == [off |-> off, b |-> b]

\* a record of what an expansion emitted: kind is "LabelDef", "LabelRef",
\* "Ident", "ArgFallback" or "Tablestart", off the offset of the emitted bytes
Event(kind, off, name) == [kind |-> kind, off |-> off, name |-> name]

---------------------------------------------------------------------------
(* macro_to_bytecode: filling the JUMPDEST placeholders *)

\* FillEntry_IndexAfterOpcode reporting an unmatched jump one past the start of its entry
RECURSIVE FillEntry_IndexAfterOpcode(_, _, _, _, _)
FillEntry_IndexAfterOpcode(jt, i, fb, code_index, label_indices) ==
    IF i > Len(jt) THEN [panic |-> FALSE, fb |-> fb, unmatched |-> <<>>]
    ELSE LET jump == jt[i] IN
         IF jump.label \in DOMAIN label_indices
         THEN IF Len(fb) < jump.bytecode_index + 6
              THEN [panic |-> TRUE, fb |-> fb, unmatched |-> <<>>]
              ELSE LET jump_value == FormatHex(label_indices[jump.label], 4)
                       before == SubSeq(fb, 1, jump.bytecode_index + 2)
                       after == SubSeq(fb, jump.bytecode_index + 7, Len(fb))
                   IN FillEntry_IndexAfterOpcode(jt, i + 1, before \o jump_value \o after,
                                code_index, label_indices)
         ELSE LET r == FillEntry_IndexAfterOpcode(jt, i + 1, fb, code_index, label_indices)
              IN [r EXCEPT !.unmatched = <<Jump(jump.label, code_index + 1)>> \o @]

\* the inner loop over the jumps registered at code_index
RECURSIVE FillEntry(_, _, _, _, _)
FillEntry(jt, i, fb, code_index, label_indices) ==
    IF i > Len(jt) THEN [panic |-> FALSE, fb |-> fb, unmatched |-> <<>>]
    ELSE LET jump == jt[i] IN
         IF jump.label \in DOMAIN label_indices
         THEN IF Len(fb) < jump.bytecode_index + 6
              THEN [panic |-> TRUE, fb |-> fb, unmatched |-> <<>>]
              ELSE LET jump_value == FormatHex(label_indices[jump.label], 4)
                       before == SubSeq(fb, 1, jump.bytecode_index + 2)
                       after == SubSeq(fb, jump.bytecode_index + 7, Len(fb))
                   IN FillEntry(jt, i + 1, before \o jump_value \o after,
                                code_index, label_indices)
         ELSE LET r == FillEntry(jt, i + 1, fb, code_index, label_indices)
              IN [r EXCEPT !.unmatched = <<Jump(jump.label, code_index)>> \o @]

\* the fold over bytes
RECURSIVE FillJumps(_, _, _)
FillJumps(bytes, jump_table, label_indices) ==
    IF bytes = <<>>
    THEN [panic |-> FALSE, bytes |-> <<>>, unmatched_jumps |-> <<>>]
    ELSE LET e == Head(bytes)
             f == IF e.off \in DOMAIN jump_table
                  THEN FillEntry(jump_table[e.off], 1, e.b, e.off, label_indices)
                  ELSE [panic |-> FALSE, fb |-> e.b, unmatched |-> <<>>]
             r == FillJumps(Tail(bytes), jump_table, label_indices)
         IN [panic |-> f.panic \/ r.panic,
             bytes |-> <<Entry(e.off, f.fb)>> \o r.bytes,
             unmatched_jumps |-> f.unmatched \o r.unmatched_jumps]

---------------------------------------------------------------------------
(* gen_table_bytecode *)

Outcome(status, kind, bytecode) ==
    [status |-> status, kind |-> kind, bytecode |-> bytecode]

\* TableCode padding every entry to 2 bytes, whatever the kind of the table
RECURSIVE TableCode_AllPacked(_, _, _)
TableCode_AllPacked(stmts, kind, label_indices) ==
    IF stmts = <<>> THEN [panic |-> FALSE, code |-> <<>>]
    ELSE LET s == Head(stmts)
             r == TableCode_AllPacked(Tail(stmts), kind, label_indices)
         IN IF s.ty = "LabelCall"
            THEN IF s.label \notin DOMAIN label_indices
                 THEN [panic |-> TRUE, code |-> <<>>]
                 ELSE LET hex == format_even_bytes(FormatHex(label_indices[s.label], 2))
                      IN [panic |-> r.panic, code |-> pad_n_bytes(hex, 2) \o r.code]
            ELSE r

\* the code of one table: an entry per LabelCall statement
RECURSIVE TableCode(_, _, _)
TableCode(stmts, kind, label_indices) ==
    IF stmts = <<>> THEN [panic |-> FALSE, code |-> <<>>]
    ELSE LET s == Head(stmts)
             r == TableCode(Tail(stmts), kind, label_indices)
         IN IF s.ty = "LabelCall"
            THEN IF s.label \notin DOMAIN label_indices
                 THEN [panic |-> TRUE, code |-> <<>>]
                 ELSE LET hex == format_even_bytes(FormatHex(label_indices[s.label], 2))
                          n == IF kind = "JumpTablePacked" THEN 2 ELSE 32
                      IN [panic |-> r.panic, code |-> pad_n_bytes(hex, n) \o r.code]
            ELSE r

\* the loop over contract.tables
RECURSIVE GenTables(_, _, _, _, _)
GenTables(tables, bytecode, table_offsets, table_offset, label_indices) ==
    IF tables = <<>>
    THEN [panic |-> FALSE, bytecode |-> bytecode, table_offsets |-> table_offsets]
    ELSE LET jt == Head(tables)
             size == ParseUsize(bytes32_to_string(jt.size))
             tc == TableCode(jt.statements, jt.kind, label_indices)
         IN IF ~size.ok \/ tc.panic
            THEN [panic |-> TRUE, bytecode |-> bytecode, table_offsets |-> table_offsets]
            ELSE GenTables(Tail(tables), bytecode \o tc.code,
                           MapInsert(table_offsets, jt.name, table_offset),
                           table_offset + size.v, label_indices)

\* the loop over res.table_instances
RECURSIVE FillTables(_, _, _)
FillTables(table_instances, bytecode, table_offsets) ==
    IF table_instances = <<>> THEN bytecode
    ELSE LET jump == Head(table_instances) IN
         IF jump.label \in DOMAIN table_offsets
         THEN LET o == table_offsets[jump.label]
                  before == SubSeq(bytecode, 1, jump.bytecode_index * 2 + 2)
                  after == SubSeq(bytecode, jump.bytecode_index * 2 + 7, Len(bytecode))
              IN FillTables(Tail(table_instances),
                            before \o pad_n_bytes(FormatHex(o, 2), 2) \o after,
                            table_offsets)
         ELSE FillTables(Tail(table_instances), bytecode, table_offsets)

gen_table_bytecode(res, c) ==
    IF res.unmatched_jumps # <<>>
    THEN Outcome("err", "UnmatchedJumpLabel", <<>>)
    ELSE LET bytecode == Concat(res.bytes)
             t == GenTables(c.tables, bytecode, EmptyMap, Len(bytecode) \div 2,
                            res.label_indices)
         IN IF t.panic THEN Outcome("panic", "", <<>>)
            ELSE Outcome("ok", "",
                         FillTables(res.table_instances, t.bytecode, t.table_offsets))

---------------------------------------------------------------------------
(* bubble_arg_call *)

\* what bubble_arg_call leaves behind; via names the branch that emitted:
\* "constant", "opcode", "literal", "ident", "fallback" or "none"
Bubbled(status, kind, bytes, offset, jump_table, via, label) ==
    [status |-> status, kind |-> kind, bytes |-> bytes, offset |-> offset,
     jump_table |-> jump_table, via |-> via, label |-> label]

\* the position of arg_name in the parameters (0: not a parameter)
ParamPos(parameters, arg_name) ==
    LET hits == {i \in 1..Len(parameters) : parameters[i] = arg_name}
    IN IF hits = {} THEN 0 ELSE CHOOSE i \in hits : \A j \in hits : i <= j

\* bubble_arg_call with the opcode table consulted before the constants
RECURSIVE bubble_arg_call_OpcodeFirst(_, _, _, _, _, _, _, _)
bubble_arg_call_OpcodeFirst(arg_name, bytes, macro_def, c, scp, offset, m, jump_table) ==
    LET starting_offset == offset
        constant == find_constant(arg_name, c)
    IN
    IF arg_name \in OpcodeNames
    THEN LET b == OpcodeOf(arg_name)
         IN Bubbled("ok", "", Append(bytes, Entry(starting_offset, b)),
                    offset + Len(b) \div 2, jump_table, "opcode", "")
    ELSE IF constant # <<>>
    THEN IF constant[1].kind = "Literal"
         THEN LET push_bytes == PushBytes(bytes32_to_string(constant[1].v))
              IN Bubbled("ok", "", Append(bytes, Entry(starting_offset, push_bytes)),
                         offset + Len(push_bytes) \div 2, jump_table, "constant", "")
         ELSE Bubbled("err", "StoragePointersNotDerived", bytes, offset, jump_table,
                      "none", "")
    ELSE IF m # <<>>
    THEN LET macro_invoc == m[Len(m)]
             pos == ParamPos(macro_def.parameters, arg_name)
         IN
         IF pos = 0 \/ pos > Len(macro_invoc.inv.args)
         THEN Bubbled("ok", "", bytes, offset, jump_table, "none", "")
         ELSE LET arg == macro_invoc.inv.args[pos] IN
              CASE arg.kind = "Literal" ->
                     LET b == PushBytes(bytes32_to_string(arg.v))
                     IN Bubbled("ok", "", Append(bytes, Entry(starting_offset, b)),
                                offset + Len(b) \div 2, jump_table, "literal", "")
                [] arg.kind = "ArgCall" ->
                     LET new_scope == SubSeq(scp, 1, Len(scp) - 1) IN
                     IF new_scope = <<>>
                     THEN Bubbled("panic", "", bytes, offset, jump_table, "none", "")
                     ELSE LET bubbled_macro_invocation ==
                                  find_macro_by_name(new_scope[Len(new_scope)], c)[1]
                              last_mi == m[Len(m)]
                          IN IF last_mi.inv.macro_name = macro_def.name
                             THEN bubble_arg_call_OpcodeFirst(arg_name, bytes,
                                      bubbled_macro_invocation, c, new_scope, offset,
                                      SubSeq(m, 1, Len(m) - 1), jump_table)
                             ELSE bubble_arg_call_OpcodeFirst(arg_name, bytes,
                                      bubbled_macro_invocation, c, new_scope, offset,
                                      m, jump_table)
                [] OTHER ->
                     Bubbled("ok", "", Append(bytes, Entry(offset, Placeholder)),
                             offset + 3,
                             MapInsert(jump_table, offset, <<Jump(arg.name, 0)>>),
                             "ident", arg.name)
    ELSE Bubbled("ok", "", Append(bytes, Entry(offset, Placeholder)), offset + 3,
                 MapInsert(jump_table,
                           IF m # <<>> THEN m[Len(m)].off ELSE 0,
                           <<Jump(arg_name, 0)>>),
                 "fallback", arg_name)

RECURSIVE bubble_arg_call(_, _, _, _, _, _, _, _)
bubble_arg_call(arg_name, bytes, macro_def, c, scp, offset, m, jump_table) ==
    LET starting_offset == offset
        constant == find_constant(arg_name, c)
    IN
    IF constant # <<>>
    THEN IF constant[1].kind = "Literal"
         THEN LET push_bytes == PushBytes(bytes32_to_string(constant[1].v))
              IN Bubbled("ok", "", Append(bytes, Entry(starting_offset, push_bytes)),
                         offset + Len(push_bytes) \div 2, jump_table, "constant", "")
         ELSE Bubbled("err", "StoragePointersNotDerived", bytes, offset, jump_table,
                      "none", "")
    ELSE IF arg_name \in OpcodeNames
    THEN LET b == OpcodeOf(arg_name)
         IN Bubbled("ok", "", Append(bytes, Entry(starting_offset, b)),
                    offset + Len(b) \div 2, jump_table, "opcode", "")
    ELSE IF m # <<>>
    THEN LET macro_invoc == m[Len(m)]
             pos == ParamPos(macro_def.parameters, arg_name)
         IN
         IF pos = 0 \/ pos > Len(macro_invoc.inv.args)
         THEN Bubbled("ok", "", bytes, offset, jump_table, "none", "")
         ELSE LET arg == macro_invoc.inv.args[pos] IN
              CASE arg.kind = "Literal" ->
                     LET b == PushBytes(bytes32_to_string(arg.v))
                     IN Bubbled("ok", "", Append(bytes, Entry(starting_offset, b)),
                                offset + Len(b) \div 2, jump_table, "literal", "")
                [] arg.kind = "ArgCall" ->
                     LET new_scope == SubSeq(scp, 1, Len(scp) - 1) IN
                     IF new_scope = <<>>
                     THEN Bubbled("panic", "", bytes, offset, jump_table, "none", "")
                     ELSE LET bubbled_macro_invocation ==
                                  find_macro_by_name(new_scope[Len(new_scope)], c)[1]
                              last_mi == m[Len(m)]
                          IN IF last_mi.inv.macro_name = macro_def.name
                             THEN bubble_arg_call(arg_name, bytes,
                                      bubbled_macro_invocation, c, new_scope, offset,
                                      SubSeq(m, 1, Len(m) - 1), jump_table)
                             ELSE bubble_arg_call(arg_name, bytes,
                                      bubbled_macro_invocation, c, new_scope, offset,
                                      m, jump_table)
                [] OTHER ->
                     Bubbled("ok", "", Append(bytes, Entry(offset, Placeholder)),
                             offset + 3,
                             MapInsert(jump_table, offset, <<Jump(arg.name, 0)>>),
                             "ident", arg.name)
    ELSE Bubbled("ok", "", Append(bytes, Entry(offset, Placeholder)), offset + 3,
                 MapInsert(jump_table,
                           IF m # <<>> THEN m[Len(m)].off ELSE 0,
                           <<Jump(arg_name, 0)>>),
                 "fallback", arg_name)

---------------------------------------------------------------------------
(* macro_to_bytecode: one call is a frame of the stack *)

\* the locals of one call: kind is how it was called ("entry": from
\* generate_*_bytecode, "invocation": a MacroInvocation statement, "codesize":
\* a __codesize call); emitted is the history of what the call emitted
Frame(macro_def, kind, offset) ==
    [macro_def |-> macro_def, kind |-> kind, idx |-> 1, offset |-> offset,
     bytes |-> <<>>, jump_table |-> EmptyMap, label_indices |-> EmptyMap,
     table_instances |-> <<>>, emitted |-> <<>>]

BytecodeRes(bytes, label_indices, unmatched_jumps, table_instances, emitted) ==
    [bytes |-> bytes, label_indices |-> label_indices,
     unmatched_jumps |-> unmatched_jumps, table_instances |-> table_instances,
     emitted |-> emitted]

NoRes == BytecodeRes(<<>>, EmptyMap, <<>>, <<>>, <<>>)

\* name is the name an error kind carries (MissingMacroDefinition(name))
Result(o, res) == [status |-> o.status, kind |-> o.kind, bytecode |-> o.bytecode,
                   res |-> res, name |-> ""]

NoResult == Result(Outcome("none", "", <<>>), NoRes)

Top == stack[Len(stack)]
TopDef == find_macro_by_name(Top.macro_def, contract)[1]
Expanding == pc = "expanding" /\ stack # <<>>
AtItem(ty) == Expanding /\ Top.idx <= Len(TopDef.ir) /\ TopDef.ir[Top.idx].ty = ty
Cur == TopDef.ir[Top.idx]

\* the frame with the current IR item done
SetTop(f) == stack' = [stack EXCEPT ![Len(stack)] = [f EXCEPT !.idx = @ + 1]]

\* return Err(..) or a panic: the generation is abandoned
Abort(status, kind) ==
    /\ pc' = "done"
    /\ stack' = <<>>
    /\ result' = Result(Outcome(status, kind, <<>>), NoRes)

\* return Err(CodegenErrorKind::MissingMacroDefinition(name))
AbortMissing(name) ==
    /\ pc' = "done"
    /\ stack' = <<>>
    /\ result' = [Result(Outcome("err", "MissingMacroDefinition", <<>>), NoRes)
                     EXCEPT !.name = name]

---------------------------------------------------------------------------
(* generate_main_bytecode, generate_constructor_bytecode: the entry *)

\* Codegen.artifact: None, or Some(Artifact); abi "" is None
NoArtifact == [some |-> FALSE, bytecode |-> <<>>, runtime |-> <<>>,
               file |-> "", abi |-> <<>>]

Call(op, file, args, main_bytecode, constructor_bytecode, ast, output, ret) ==
    [op |-> op, file |-> file, args |-> args, main_bytecode |-> main_bytecode,
     constructor_bytecode |-> constructor_bytecode, ast |-> ast, output |-> output,
     ret |-> ret]

\* what a call returned: Ok(artifact), Ok(abi) or Err
Ret(status, art, abi) == [status |-> status, artifact |-> art, abi |-> abi]

NoCall == Call("none", "", <<>>, <<>>, <<>>, "", <<>>, Ret("none", NoArtifact, <<>>))

Init ==
    /\ input \in Inputs
    /\ pc = "idle"
    /\ entry = "none"
    /\ stack = <<>>
    /\ scope = <<>>
    /\ mis = <<>>
    /\ result = NoResult
    /\ artifact = NoArtifact
    /\ last = NoCall

\* get_macro_by_name, then the call of macro_to_bytecode
Generate(name) ==
    /\ pc = "idle"
    /\ entry' = name
    /\ IF find_macro_by_name(name, contract) = <<>>
       THEN /\ AbortMissing(name)
            /\ UNCHANGED <<scope, mis>>
       ELSE /\ pc' = "expanding"
            /\ stack' = <<Frame(name, "entry", 0)>>
            /\ scope' = <<name>>
            /\ mis' = <<>>
            /\ UNCHANGED result
    /\ UNCHANGED <<input, artifact, last>>

generate_main_bytecode == Generate("MAIN")

generate_constructor_bytecode == Generate("CONSTRUCTOR")

-------------------------------------------------------------------------------------------------------------------------------------------------
(* macro_to_bytecode: the arms of the loop over the IR bytes *)

StepBytes ==
    /\ AtItem("Bytes")
    /\ SetTop([Top EXCEPT !.bytes = Append(@, Entry(Top.offset, Cur.b)),
                          !.offset = @ + Len(Cur.b) \div 2])
    /\ UNCHANGED <<input, pc, entry, scope, mis, result, artifact, last>>

StepConstant ==
    /\ AtItem("Constant")
    /\ LET constant == find_constant(Cur.name, contract) IN
       IF constant = <<>>
       THEN Abort("err", "MissingConstantDefinition")
       ELSE IF constant[1].kind # "Literal"
       THEN Abort("err", "StoragePointersNotDerived")
       ELSE LET push_bytes == PushBytes(bytes32_to_string(constant[1].v)) IN
            /\ SetTop([Top EXCEPT !.bytes = Append(@, Entry(Top.offset, push_bytes)),
                                  !.offset = @ + Len(push_bytes) \div 2])
            /\ UNCHANGED <<pc, result>>
    /\ UNCHANGED <<input, entry, scope, mis, artifact, last>>

\* StepMacroInvocation naming the invoking macro in the error
StepMacroInvocation_NamesInvoker ==
    /\ AtItem("MacroInvocation")
    /\ IF find_macro_by_name(Cur.name, contract) = <<>>
       THEN /\ AbortMissing(Top.macro_def)
            /\ UNCHANGED <<scope, mis>>
       ELSE /\ scope' = Append(scope, Cur.name)
            /\ mis' = Append(mis, [off |-> Top.offset,
                                   inv |-> [macro_name |-> Cur.name, args |-> Cur.args]])
            /\ stack' = Append(stack, Frame(Cur.name, "invocation", Top.offset))
            /\ UNCHANGED <<pc, result>>
    /\ UNCHANGED <<input, entry, artifact, last>>

\* StepMacroInvocation with the callee starting at offset 0
StepMacroInvocation_FromZero ==
    /\ AtItem("MacroInvocation")
    /\ IF find_macro_by_name(Cur.name, contract) = <<>>
       THEN /\ AbortMissing(Cur.name)
            /\ UNCHANGED <<scope, mis>>
       ELSE /\ scope' = Append(scope, Cur.name)
            /\ mis' = Append(mis, [off |-> Top.offset,
                                   inv |-> [macro_name |-> Cur.name, args |-> Cur.args]])
            /\ stack' = Append(stack, Frame(Cur.name, "invocation", 0))
            /\ UNCHANGED <<pc, result>>
    /\ UNCHANGED <<input, entry, artifact, last>>

\* the statement up to the recursive call: the callee becomes the top frame
StepMacroInvocation ==
    /\ AtItem("MacroInvocation")
    /\ IF find_macro_by_name(Cur.name, contract) = <<>>
       THEN /\ AbortMissing(Cur.name)
            /\ UNCHANGED <<scope, mis>>
       ELSE /\ scope' = Append(scope, Cur.name)
            /\ mis' = Append(mis, [off |-> Top.offset,
                                   inv |-> [macro_name |-> Cur.name, args |-> Cur.args]])
            /\ stack' = Append(stack, Frame(Cur.name, "invocation", Top.offset))
            /\ UNCHANGED <<pc, result>>
    /\ UNCHANGED <<input, entry, artifact, last>>

\* StepLabel recording the label behind its JUMPDEST
StepLabel_RecordAfter ==
    /\ AtItem("Label")
    /\ SetTop([Top EXCEPT !.label_indices = MapInsert(@, Cur.name, Top.offset + 1),
                          !.bytes = Append(@, Entry(Top.offset, Jumpdest)),
                          !.offset = @ + 1,
                          !.emitted = Append(@, Event("LabelDef", Top.offset, Cur.name))])
    /\ UNCHANGED <<input, pc, entry, scope, mis, result, artifact, last>>

StepLabel ==
    /\ AtItem("Label")
    /\ SetTop([Top EXCEPT !.label_indices = MapInsert(@, Cur.name, Top.offset),
                          !.bytes = Append(@, Entry(Top.offset, Jumpdest)),
                          !.offset = @ + 1,
                          !.emitted = Append(@, Event("LabelDef", Top.offset, Cur.name))])
    /\ UNCHANGED <<input, pc, entry, scope, mis, result, artifact, last>>

StepLabelCall ==
    /\ AtItem("LabelCall")
    /\ SetTop([Top EXCEPT !.jump_table = MapInsert(@, Top.offset, <<Jump(Cur.name, 0)>>),
                          !.bytes = Append(@, Entry(Top.offset, Placeholder)),
                          !.offset = @ + 3,
                          !.emitted = Append(@, Event("LabelRef", Top.offset, Cur.name))])
    /\ UNCHANGED <<input, pc, entry, scope, mis, result, artifact, last>>

\* __codesize up to the recursive call: scope and mis are passed on as they are
StepCodesize ==
    /\ AtItem("Codesize")
    /\ IF find_macro_by_name(Cur.name, contract) = <<>>
       THEN AbortMissing(Cur.name)
       ELSE /\ stack' = Append(stack, Frame(Cur.name, "codesize", Top.offset))
            /\ UNCHANGED <<pc, result>>
    /\ UNCHANGED <<input, entry, scope, mis, artifact, last>>

StepTablesize ==
    /\ AtItem("Tablesize")
    /\ LET ir_table == find_table_by_name(Cur.name, contract) IN
       IF ir_table = <<>>
       THEN AbortMissing(Cur.name)
       ELSE LET size == bytes32_to_string(ir_table[1].size)
                push_bytes == PushBytes(size)
            IN /\ SetTop([Top EXCEPT !.bytes = Append(@, Entry(Top.offset, push_bytes)),
                                     !.offset = @ + Len(push_bytes) \div 2])
               /\ UNCHANGED <<pc, result>>
    /\ UNCHANGED <<input, entry, scope, mis, artifact, last>>

StepTablestart ==
    /\ AtItem("Tablestart")
    /\ SetTop([Top EXCEPT !.table_instances = Append(@, Jump(Cur.name, Top.offset)),
                          !.bytes = Append(@, Entry(Top.offset, Placeholder)),
                          !.offset = @ + 3,
                          !.emitted = Append(@, Event("Tablestart", Top.offset, Cur.name))])
    /\ UNCHANGED <<input, pc, entry, scope, mis, result, artifact, last>>

\* the event of an argument reference that emitted a placeholder
ArgEvents(r, off) ==
    IF r.via = "ident" THEN <<Event("Ident", off, r.label)>>
    ELSE IF r.via = "fallback" THEN <<Event("ArgFallback", off, r.label)>>
    ELSE <<>>

StepArgCall ==
    /\ AtItem("ArgCall")
    /\ LET r == bubble_arg_call(Cur.name, Top.bytes, TopDef, contract, scope,
                                Top.offset, mis, Top.jump_table)
       IN IF r.status # "ok"
          THEN Abort(r.status, r.kind)
          ELSE /\ SetTop([Top EXCEPT !.bytes = r.bytes,
                                     !.offset = r.offset,
                                     !.jump_table = r.jump_table,
                                     !.emitted = @ \o ArgEvents(r, Top.offset)])
               /\ UNCHANGED <<pc, result>>
    /\ UNCHANGED <<input, entry, scope, mis, artifact, last>>

---------------------------------------------------------------------------
(* macro_to_bytecode: after the loop *)

AtEnd == Expanding /\ Top.idx > Len(TopDef.ir)

\* mis.pop()
Popped(m) == IF m = <<>> THEN <<>> ELSE SubSeq(m, 1, Len(m) - 1)

Filled == FillJumps(Top.bytes, Top.jump_table, Top.label_indices)

\* the BytecodeRes the top frame returns
Returned ==
    BytecodeRes(Filled.bytes, Top.label_indices, Filled.unmatched_jumps,
                Top.table_instances, Top.emitted)

\* the caller's loop over res.unmatched_jumps
RECURSIVE Rekey(_, _)
Rekey(jump_table, unmatched_jumps) ==
    IF unmatched_jumps = <<>> THEN jump_table
    ELSE LET j == Head(unmatched_jumps)
             new_index == j.bytecode_index
             new_jumps == IF new_index \in DOMAIN jump_table
                          THEN jump_table[new_index] ELSE <<>>
         IN Rekey(MapInsert(jump_table, new_index, Append(new_jumps, Jump(j.label, 0))),
                  Tail(unmatched_jumps))

Caller == stack[Len(stack) - 1]

\* the frames with the top one gone and the caller's current item done
SetCaller(f) ==
    stack' = [SubSeq(stack, 1, Len(stack) - 1) EXCEPT
                 ![Len(stack) - 1] = [f EXCEPT !.idx = @ + 1]]

\* the callee of a MacroInvocation returns and the caller merges its result
ReturnInvocation ==
    /\ AtEnd
    /\ Top.kind = "invocation"
    /\ mis' = Popped(mis)
    /\ IF Filled.panic
       THEN Abort("panic", "")
       ELSE LET res == Returned IN
            /\ SetCaller([Caller EXCEPT
                   !.jump_table = Rekey(@, res.unmatched_jumps),
                   !.table_instances = @ \o res.table_instances,
                   !.label_indices = MapExtend(@, res.label_indices),
                   !.offset = @ + ByteLen(res.bytes),
                   !.bytes = @ \o res.bytes,
                   !.emitted = @ \o res.emitted])
            /\ UNCHANGED <<pc, result>>
    /\ UNCHANGED <<input, entry, scope, artifact, last>>

\* ReturnCodesize keeping the labels and table instances of the measured macro
ReturnCodesize_Merging ==
    /\ AtEnd
    /\ Top.kind = "codesize"
    /\ mis' = Popped(mis)
    /\ IF Filled.panic
       THEN Abort("panic", "")
       ELSE LET res == Returned
                size == format_even_bytes(FormatHex(ByteLen(res.bytes), 2))
                push_bytes == PushBytes(size)
            IN /\ SetCaller([Caller EXCEPT
                      !.offset = @ + Len(push_bytes) \div 2,
                      !.table_instances = @ \o res.table_instances,
                      !.label_indices = MapExtend(@, res.label_indices),
                      !.bytes = Append(@, Entry(Caller.offset, push_bytes))])
               /\ UNCHANGED <<pc, result>>
    /\ UNCHANGED <<input, entry, scope, artifact, last>>

\* the macro measured by __codesize returns and the caller pushes its size
ReturnCodesize ==
    /\ AtEnd
    /\ Top.kind = "codesize"
    /\ mis' = Popped(mis)
    /\ IF Filled.panic
       THEN Abort("panic", "")
       ELSE LET res == Returned
                size == format_even_bytes(FormatHex(ByteLen(res.bytes), 2))
                push_bytes == PushBytes(size)
            IN /\ SetCaller([Caller EXCEPT
                      !.offset = @ + Len(push_bytes) \div 2,
                      !.bytes = Append(@, Entry(Caller.offset, push_bytes))])
               /\ UNCHANGED <<pc, result>>
    /\ UNCHANGED <<input, entry, scope, artifact, last>>

\* MAIN returns to generate_main_bytecode, which calls gen_table_bytecode
ReturnMain ==
    /\ AtEnd
    /\ Top.kind = "entry"
    /\ entry = "MAIN"
    /\ mis' = Popped(mis)
    /\ pc' = "done"
    /\ stack' = <<>>
    /\ result' = IF Filled.panic THEN Result(Outcome("panic", "", <<>>), NoRes)
                 ELSE Result(gen_table_bytecode(Returned, contract), Returned)
    /\ UNCHANGED <<input, entry, scope, artifact, last>>

\* CONSTRUCTOR returns to generate_constructor_bytecode
ReturnConstructor ==
    /\ AtEnd
    /\ Top.kind = "entry"
    /\ entry = "CONSTRUCTOR"
    /\ mis' = Popped(mis)
    /\ pc' = "done"
    /\ stack' = <<>>
    /\ result' = IF Filled.panic THEN Result(Outcome("panic", "", <<>>), NoRes)
                 ELSE Result(Outcome("ok", "", Concat(Returned.bytes)), Returned)
    /\ UNCHANGED <<input, entry, scope, artifact, last>>

Next ==
    \/ generate_main_bytecode
    \/ generate_constructor_bytecode
    \/ StepBytes
    \/ StepConstant
    \/ StepMacroInvocation
    \/ StepLabel
    \/ StepLabelCall
    \/ StepCodesize
    \/ StepTablesize
    \/ StepTablestart
    \/ StepArgCall
    \/ ReturnInvocation
    \/ ReturnCodesize
    \/ ReturnMain
    \/ ReturnConstructor

Spec == Init /\ [][Next]_vars

---------------------------------------------------------------------------
(* churn and abi_gen: the artifact *)

\* bounds of the driver's inputs
MaxMain == 2
MaxCtor == 3
MaxArgs == 1

\* the upper-case hex digits A..F are the characters 26..31
Upper(d) == d + 16

\* str::to_lowercase on a string of hex characters
to_lowercase(h) == [i \in DOMAIN h |-> IF h[i] >= Upper(10) /\ h[i] # X THEN h[i] - 16 ELSE h[i]]

\* the byte length of the bootstrap that churn inserts
BootstrapLen == 13

\* Artifact::default()
DefaultArtifact == [some |-> TRUE, bytecode |-> <<>>, runtime |-> <<>>,
                    file |-> "", abi |-> <<>>]

\* ethers::abi::encode of one token, hex encoded: a 32-byte word
encode(tok) == LeftPad(HexDigits(tok), 64)

RECURSIVE constructor_args(_)
constructor_args(args) ==
    IF args = <<>> THEN <<>> ELSE encode(Head(args)) \o constructor_args(Tail(args))

\* the strings of at most n bytes over the bytes in alphabet
RECURSIVE BytesUpTo(_, _)
BytesUpTo(alphabet, n) ==
    IF n = 0 THEN {<<>>}
    ELSE BytesUpTo(alphabet, n - 1)
         \cup {b \o h : b \in alphabet, h \in {g \in BytesUpTo(alphabet, n - 1) : Len(g) = 2 * (n - 1)}}

MainCodes == BytesUpTo({<<15, 15>>, <<Upper(15), 10>>}, MaxMain)
CtorCodes == BytesUpTo({<<6, 0>>}, MaxCtor)
Tokens == {2}
ArgLists == UNION {[1..n -> Tokens] : n \in 0..MaxArgs}
Files == {"a.huff"}
Asts == {"c1"}
Outputs == {<<>>, <<"out.json">>}

\* churn with a bootstrap offset that forgets the final f3
churn_Prologue12 ==
    /\ \E file \in Files, args \in ArgLists, main_bytecode \in MainCodes,
          constructor_bytecode \in CtorCodes :
          LET art == IF artifact.some THEN artifact ELSE DefaultArtifact
              contract_length == Len(main_bytecode) \div 2
              constructor_length == Len(constructor_bytecode) \div 2
              contract_size == FormatHex(contract_length, 4)
              contract_code_offset == FormatHex(12 + constructor_length, 4)
              bootstrap_code == <<6, 1>> \o contract_size \o <<8, 0, 6, 1>>
                                \o contract_code_offset
                                \o <<6, 0, 0, 0, 3, 9, 6, 0, 0, 0, 15, 3>>
              constructor_code == constructor_bytecode \o bootstrap_code
              new == [art EXCEPT
                        !.bytecode = to_lowercase(constructor_code \o main_bytecode
                                                  \o constructor_args(args)),
                        !.runtime = to_lowercase(main_bytecode),
                        !.file = file]
          IN /\ artifact' = new
             /\ last' = Call("churn", file, args, main_bytecode, constructor_bytecode,
                             "", <<>>, Ret("ok", new, <<>>))
    /\ UNCHANGED <<input, pc, entry, stack, scope, mis, result>>

churn ==
    /\ \E file \in Files, args \in ArgLists, main_bytecode \in MainCodes,
          constructor_bytecode \in CtorCodes :
          LET art == IF artifact.some THEN artifact ELSE DefaultArtifact
              contract_length == Len(main_bytecode) \div 2
              constructor_length == Len(constructor_bytecode) \div 2
              contract_size == FormatHex(contract_length, 4)
              contract_code_offset == FormatHex(BootstrapLen + constructor_length, 4)
              bootstrap_code == <<6, 1>> \o contract_size \o <<8, 0, 6, 1>>
                                \o contract_code_offset
                                \o <<6, 0, 0, 0, 3, 9, 6, 0, 0, 0, 15, 3>>
              constructor_code == constructor_bytecode \o bootstrap_code
              new == [art EXCEPT
                        !.bytecode = to_lowercase(constructor_code \o main_bytecode
                                                  \o constructor_args(args)),
                        !.runtime = to_lowercase(main_bytecode),
                        !.file = file]
          IN /\ artifact' = new
             /\ last' = Call("churn", file, args, main_bytecode, constructor_bytecode,
                             "", <<>>, Ret("ok", new, <<>>))
    /\ UNCHANGED <<input, pc, entry, stack, scope, mis, result>>

\* Abi::from(Contract)
AbiOf(ast) == [contract |-> ast]

\* Codegen::export either writes the file or fails with an IO error
ExportOutcomes == {"ok", "err"}

\* abi_gen storing the abi in a fresh artifact, whatever is cached
abi_gen_FreshArtifact ==
    /\ \E ast \in Asts, output \in Outputs :
       \E io \in IF output = <<>> THEN {"ok"} ELSE ExportOutcomes :
          LET abi == AbiOf(ast)
              new == [DefaultArtifact EXCEPT !.abi = <<abi>>]
          IN /\ artifact' = new
             /\ last' = Call("abi_gen", "", <<>>, <<>>, <<>>, ast, output,
                             IF io = "err" THEN Ret("err", NoArtifact, <<>>)
                             ELSE Ret("ok", NoArtifact, <<abi>>))
    /\ UNCHANGED <<input, pc, entry, stack, scope, mis, result>>

abi_gen ==
    /\ \E ast \in Asts, output \in Outputs :
       \E io \in IF output = <<>> THEN {"ok"} ELSE ExportOutcomes :
          LET abi == AbiOf(ast)
              new == IF artifact.some
                     THEN [artifact EXCEPT !.abi = <<abi>>]
                     ELSE [DefaultArtifact EXCEPT !.abi = <<abi>>]
          IN /\ artifact' = new
             /\ last' = Call("abi_gen", "", <<>>, <<>>, <<>>, ast, output,
                             IF io = "err" THEN Ret("err", NoArtifact, <<>>)
                             ELSE Ret("ok", NoArtifact, <<abi>>))
    /\ UNCHANGED <<input, pc, entry, stack, scope, mis, result>>

InitChurn ==
    /\ input = [lib |-> "labels", body |-> <<>>]
    /\ pc = "idle"
    /\ entry = "none"
    /\ stack = <<>>
    /\ scope = <<>>
    /\ mis = <<>>
    /\ result = NoResult
    /\ artifact = NoArtifact
    /\ last = NoCall

NextChurn ==
    \/ churn
    \/ abi_gen

SpecChurn == InitChurn /\ [][NextChurn]_vars

---------------------------------------------------------------------------
(* Reading the results *)

MainOk == pc = "done" /\ entry = "MAIN" /\ result.status = "ok"
ConstructorOk == pc = "done" /\ entry = "CONSTRUCTOR" /\ result.status = "ok"

\* what the returned expansion emitted, by kind
Emitted(kind) ==
    {result.res.emitted[i] : i \in {j \in 1..Len(result.res.emitted) :
                                       result.res.emitted[j].kind = kind}}

\* the n bytes of hex string h from byte offset off on (<<>> past the end)
BytesAt(h, off, n) ==
    IF 2 * (off + n) <= Len(h) THEN SubSeq(h, 2 * off + 1, 2 * (off + n)) ELSE <<>>

RECURSIVE HexValue(_)
HexValue(h) ==
    IF h = <<>> THEN 0 ELSE 16 * HexValue(SubSeq(h, 1, Len(h) - 1)) + h[Len(h)]

HasPlaceholder(h) == \E i \in 1..Len(h) : h[i] = X

\* the number of LabelDef statements of label l in the returned expansion
DefCount(l) ==
    Cardinality({i \in 1..Len(result.res.emitted) :
                    /\ result.res.emitted[i].kind = "LabelDef"
                    /\ result.res.emitted[i].name = l})

DefinedOnce == \A d \in Emitted("LabelDef") : DefCount(d.name) = 1

---------------------------------------------------------------------------
(* C1 *)

\* C1: when every label is defined once and generate_main_bytecode succeeds,
\* the PUSH2 of every LabelRef of a defined label L is followed by the two
\* bytes of the offset of L's JUMPDEST
C1_LabelRefPatched ==
    (MainOk /\ DefinedOnce) =>
        \A r \in Emitted("LabelRef") : \A d \in Emitted("LabelDef") :
            d.name = r.name =>
                /\ BytesAt(result.bytecode, r.off, 1) = Push2
                /\ BytesAt(result.bytecode, r.off + 1, 2) = FormatHex(d.off, 4)

---------------------------------------------------------------------------
(* C2, C3 *)

\* C2: the bytecode generate_main_bytecode returns holds no placeholder
C2_NoPlaceholderInMain == MainOk => ~HasPlaceholder(result.bytecode)

\* C3: generate_constructor_bytecode fails with UnmatchedJumpLabel when the
\* expansion of CONSTRUCTOR leaves an unresolved jump, and the bytecode it
\* returns holds no placeholder
C3_ConstructorFinalized ==
    (pc = "done" /\ entry = "CONSTRUCTOR") =>
        /\ result.res.unmatched_jumps # <<>> => result.kind = "UnmatchedJumpLabel"
        /\ result.status = "ok" => ~HasPlaceholder(result.bytecode)

---------------------------------------------------------------------------
(* C4, C5 *)

\* the bytes of a table that are in the bytecode: an entry per LabelCall statement
EmittedSize(t) ==
    (IF t.kind = "JumpTablePacked" THEN 2 ELSE 32)
        * Cardinality({i \in 1..Len(t.statements) : t.statements[i].ty = "LabelCall"})

RECURSIVE SumOver(_, _, _)
SumOver(Op(_), seq, n) ==
    IF n = 0 THEN 0 ELSE Op(seq[n]) + SumOver(Op, seq, n - 1)

DeclaredSize(t) == t.size

CodeLen == ByteLen(result.res.bytes)

TableIndex(name) == CHOOSE i \in 1..Len(contract.tables) : contract.tables[i].name = name

\* where the first entry of the i-th table starts in the bytecode
TableStart(i) == CodeLen + SumOver(EmittedSize, contract.tables, i - 1)

TableStartsAt(name) == TableStart(TableIndex(name))

Declared(name) == find_table_by_name(name, contract) # <<>>

\* C4: the PUSH2 of every __tablestart(T) of a declared table T is followed by
\* the offset at which T starts in the bytecode
C4_TablestartPatched ==
    MainOk =>
        \A e \in Emitted("Tablestart") :
            Declared(e.name) =>
                /\ BytesAt(result.bytecode, e.off, 1) = Push2
                /\ BytesAt(result.bytecode, e.off + 1, 2) =
                       FormatHex(TableStartsAt(e.name), 4)

\* C5: the byte length of the main bytecode is the byte length of the code of
\* MAIN plus the declared sizes of all tables
C5_ByteLength ==
    MainOk =>
        Len(result.bytecode) =
            2 * (CodeLen + SumOver(DeclaredSize, contract.tables, Len(contract.tables)))

---------------------------------------------------------------------------
(* C7 *)

\* the jumps registered in the returned expansion whose label no LabelDef defines
UndefinedJumps ==
    {e \in Emitted("LabelRef") \cup Emitted("Ident") \cup Emitted("ArgFallback") :
        DefCount(e.name) = 0}

\* C7: generate_main_bytecode fails with UnmatchedJumpLabel exactly when the
\* expansion of MAIN registered a jump to a label that is defined nowhere
C7_UnmatchedIffUndefined ==
    (pc = "done" /\ entry = "MAIN" /\ result.status \in {"ok", "err"}) =>
        (result.kind = "UnmatchedJumpLabel" <=> UndefinedJumps # {})

---------------------------------------------------------------------------
(* C6 *)

\* C6: the byte of the main bytecode at the offset recorded for a label is
\* JUMPDEST
C6_JumpdestAtLabel ==
    MainOk =>
        \A l \in DOMAIN result.res.label_indices :
            BytesAt(result.bytecode, result.res.label_indices[l], 1) = <<5, 11>>

\* a label recorded behind a macro invocation, an argument reference and a
\* builtin call
C6_Witness ==
    /\ MainOk
    /\ \E l \in DOMAIN result.res.label_indices : result.res.label_indices[l] >= 4
    /\ \E i \in 1..Len(input.body) : input.body[i].ty = "MacroInvocation"
    /\ \E i \in 1..Len(input.body) : input.body[i].ty = "Codesize"

---------------------------------------------------------------------------
(* C9 *)

\* the push of the size S that __codesize leaves in entry e: PUSHn followed
\* by the n bytes of S, n the least number of bytes that hold S
IsPushOf(b, S) ==
    LET n == (Len(b) - 2) \div 2 IN
    /\ Len(b) = 2 * n + 2
    /\ n >= 1
    /\ HexValue(SubSeq(b, 1, 2)) = 95 + n
    /\ HexValue(SubSeq(b, 3, Len(b))) = S
    /\ (n = 1 \/ SubSeq(b, 3, 4) # <<0, 0>>)

\* C9: when the macro measured by __codesize returns, the caller gains one
\* entry at its current offset, the push of the byte length of the measured
\* expansion, and none of its labels, jumps or table instances
C9_Codesize ==
    [][(AtEnd /\ Top.kind = "codesize" /\ pc' = "expanding") =>
          LET before == Caller
              after == stack'[Len(stack')]
          IN /\ Len(stack') = Len(stack) - 1
             /\ Len(after.bytes) = Len(before.bytes) + 1
             /\ SubSeq(after.bytes, 1, Len(before.bytes)) = before.bytes
             /\ after.bytes[Len(after.bytes)].off = before.offset
             /\ IsPushOf(after.bytes[Len(after.bytes)].b, ByteLen(Top.bytes))
             /\ after.offset = before.offset + Len(after.bytes[Len(after.bytes)].b) \div 2
             /\ after.label_indices = before.label_indices
             /\ after.jump_table = before.jump_table
             /\ after.table_instances = before.table_instances]_vars

\* a measured macro that defines a label, leaves a jump unresolved and uses a
\* table has returned, and so has one of more than 255 bytes
C9_Witness ==
    /\ pc = "done"
    /\ result.status = "ok"
    /\ input.lib = "codesize"
    /\ \E i, j \in 1..Len(input.body) :
          /\ input.body[i] = ICodesize("B")
          /\ input.body[j] = ICodesize("C")
    /\ \E i \in 1..Len(result.res.bytes) : result.res.bytes[i].b = <<6, 1, 0, 1, 0, 0>>
    /\ Emitted("Tablestart") = {}

---------------------------------------------------------------------------
(* C10 *)

LabelStmts(t) == SelectSeq(t.statements, LAMBDA st : st.ty = "LabelCall")
EntryWidth(t) == IF t.kind = "JumpTablePacked" THEN 2 ELSE 32

\* C10: behind the code the main bytecode holds the tables in declaration
\* order, each an entry per LabelCall statement in statement order: the
\* offset of the label in 2 bytes (packed) or 32 bytes (padded)
C10_TableEntries ==
    MainOk =>
        /\ Len(result.bytecode) = 2 * TableStart(Len(contract.tables) + 1)
        /\ \A i \in 1..Len(contract.tables) :
              LET t == contract.tables[i] IN
              \A k \in 1..Len(LabelStmts(t)) :
                  HexValue(BytesAt(result.bytecode,
                                   TableStart(i) + EntryWidth(t) * (k - 1),
                                   EntryWidth(t)))
                      = result.res.label_indices[LabelStmts(t)[k].label]

\* a padded table and a packed table of two entries were appended behind code
\* in which the labels are not at offset 0
C10_Witness ==
    /\ MainOk
    /\ input.lib = "tables"
    /\ \A l \in DOMAIN result.res.label_indices : result.res.label_indices[l] > 0
    /\ Len(result.bytecode) = 2 * (CodeLen + 32 + 4)

---------------------------------------------------------------------------
(* C8: the deployment bytecode that churn builds *)

Bootstrap(size16, offset16) ==
    <<6, 1>> \o size16 \o <<8, 0, 6, 1>> \o offset16 \o <<6, 0, 0, 0, 3, 9, 6, 0, 0, 0, 15, 3>>

\* C8: churn sets artifact.bytecode to K || 61 || size16 || 80 || 61 || offset16 ||
\* 6000396000f3 || M || A and artifact.runtime to M (all hex lower-cased), where the
\* bootstrap is exactly 13 bytes, size16 is the byte length of M in 4 hex digits and
\* offset16 is 13 + the byte length of K in 4 hex digits, which is the byte position
\* at which M begins in the deployment bytecode.
C8_ChurnLayout ==
    last.op = "churn" =>
        LET M == to_lowercase(last.main_bytecode)
            K == to_lowercase(last.constructor_bytecode)
            A == constructor_args(last.args)
            code == artifact.bytecode
            boot == SubSeq(code, Len(K) + 1, Len(K) + 2 * 13)
            size16 == SubSeq(boot, 3, 6)
            offset16 == SubSeq(boot, 11, 14)
        IN /\ Len(code) = Len(K) + 2 * 13 + Len(M) + Len(A)
           /\ SubSeq(code, 1, Len(K)) = K
           /\ boot = Bootstrap(size16, offset16)
           /\ HexValue(size16) = Len(M) \div 2
           /\ HexValue(offset16) = 13 + Len(K) \div 2
           /\ BytesAt(code, HexValue(offset16), Len(M) \div 2) = M
           /\ SubSeq(code, Len(K) + 2 * 13 + Len(M) + 1, Len(code)) = A
           /\ artifact.runtime = M
           /\ last.ret.artifact = artifact

\* churn has run with a constructor long enough for the offset to carry into the
\* next hex digit, an upper-case main bytecode and a constructor argument
C8_Witness ==
    /\ last.op = "churn"
    /\ Len(last.constructor_bytecode) = 6
    /\ last.main_bytecode = <<Upper(15), 10, 15, 15>>
    /\ last.args = <<2>>
    /\ artifact.runtime = <<15, 10, 15, 15>>
    /\ SubSeq(artifact.bytecode, 7, 32) = Bootstrap(<<0, 0, 0, 2>>, <<0, 0, 1, 0>>)

---------------------------------------------------------------------------
(* C11: missing macro definitions *)

\* generate_*_bytecode is called and the contract lacks the entry macro
MissingEntry == pc = "idle" /\ find_macro_by_name(entry', contract) = <<>>

\* the statement at hand invokes or measures a macro the contract lacks
MissingCallee ==
    /\ AtItem("MacroInvocation") \/ AtItem("Codesize")
    /\ find_macro_by_name(Cur.name, contract) = <<>>

\* the generation ends with Err(MissingMacroDefinition(name)) and no bytecode
MissingReported(name) ==
    /\ pc' = "done"
    /\ result'.status = "err"
    /\ result'.kind = "MissingMacroDefinition"
    /\ result'.name = name
    /\ result'.bytecode = <<>>

\* C11: when MAIN or CONSTRUCTOR is absent, or a MacroInvocation or a
\* __codesize call at any depth names an undefined macro, the generation
\* fails with MissingMacroDefinition carrying that name and returns no bytecode
C11_MissingMacro ==
    [][/\ MissingEntry => MissingReported(entry')
       /\ MissingCallee => MissingReported(Cur.name)]_vars

\* MAIN invokes B, B invokes A, A invokes the undefined Z: the error names Z
C11_Witness ==
    /\ pc = "done"
    /\ entry = "MAIN"
    /\ input = [lib |-> "missing", body |-> <<IInvoke("B", <<>>)>>]
    /\ result.status = "err"
    /\ result.kind = "MissingMacroDefinition"
    /\ result.name = "Z"

---------------------------------------------------------------------------
(* C12: the offsets recorded for the tables *)

\* the table_offsets gen_table_bytecode records for the expansion of MAIN
TableOffsets ==
    GenTables(contract.tables, Concat(result.res.bytes), EmptyMap, CodeLen,
              result.res.label_indices).table_offsets

\* C12: the offset recorded for a table is the byte length of the code plus
\* the declared sizes of the tables declared before it
C12_TableOffsets ==
    MainOk =>
        \A i \in 1..Len(contract.tables) :
            TableOffsets[contract.tables[i].name] =
                CodeLen + SumOver(DeclaredSize, contract.tables, i - 1)

---------------------------------------------------------------------------
(* The chain of active invocations, read off the frames *)

\* the definition of the macro the k-th frame expands
DefOf(k) == find_macro_by_name(stack[k].macro_def, contract)[1]

\* the MacroInvocation statement that called the k-th frame, with the offset
\* it was called at: the caller stays at that statement until the callee returns
InvocationOf(k) ==
    LET mi == DefOf(k - 1).ir[stack[k - 1].idx]
    IN [off |-> stack[k - 1].offset,
        inv |-> [macro_name |-> mi.name, args |-> mi.args]]

\* the invocations of the frames 1..k, outermost first
RECURSIVE ChainMis(_)
ChainMis(k) ==
    IF k <= 1 THEN <<>>
    ELSE IF stack[k].kind = "invocation" THEN Append(ChainMis(k - 1), InvocationOf(k))
    ELSE ChainMis(k - 1)

\* the entry macro and the invoked macros of the frames 1..k, outermost first
RECURSIVE ChainScope(_)
ChainScope(k) ==
    IF k = 0 THEN <<>>
    ELSE IF k = 1 \/ stack[k].kind = "invocation"
         THEN Append(ChainScope(k - 1), stack[k].macro_def)
    ELSE ChainScope(k - 1)

---------------------------------------------------------------------------
(* C13: an ArgCall argument is resolved in the invoking macro *)

\* the argument the invocation of the current macro passes for the name at hand
PassedArg ==
    LET args == InvocationOf(Len(stack)).inv.args
        pos == ParamPos(TopDef.parameters, Cur.name)
    IN IF pos = 0 \/ pos > Len(args) THEN <<>> ELSE <<args[pos]>>

\* the ArgRef at hand is a parameter of the invoked macro D, neither a constant
\* nor an opcode, and the invocation of D passes ArgCall(S) for it
ForwardedArgCall ==
    /\ AtItem("ArgCall")
    /\ Top.kind = "invocation"
    /\ find_constant(Cur.name, contract) = <<>>
    /\ Cur.name \notin OpcodeNames
    /\ PassedArg # <<>>
    /\ PassedArg[1].kind = "ArgCall"

\* the name S resolved in the macro that invoked D, against that macro's invocation
ResolvedByInvoker ==
    bubble_arg_call(PassedArg[1].name, Top.bytes, DefOf(Len(stack) - 1), contract,
                    ChainScope(Len(stack) - 1), Top.offset, ChainMis(Len(stack) - 1),
                    Top.jump_table)

\* C13: an ArgRef whose invocation argument is ArgCall(S) emits the bytes that
\* resolving S in the invoking macro emits
C13_ArgCallForwarded ==
    [][(ForwardedArgCall /\ ResolvedByInvoker.status = "ok") =>
          /\ pc' = "expanding"
          /\ stack'[Len(stack)].bytes = ResolvedByInvoker.bytes
          /\ stack'[Len(stack)].offset = ResolvedByInvoker.offset]_vars

---------------------------------------------------------------------------
(* C14: the scope stack is the chain of the macros being expanded *)

\* C14: while a macro is expanded, scope holds the entry macro and the macros
\* of the invocations that are still open, outermost first, and nothing else:
\* an invocation that has returned is no longer on it
C14_ScopeIsChain == Expanding => scope = ChainScope(Len(stack))

---------------------------------------------------------------------------
(* C15: the invocation stack across one IR item *)

\* C15: while a macro is expanded, mis holds the invocations that are still
\* open, outermost first: an item that has been processed, a __codesize
\* included, leaves the invocation of the body it stands in on top
C15_MisIsChain == Expanding => mis = ChainMis(Len(stack))

---------------------------------------------------------------------------
(* C16: an ArgRef that is no constant, no opcode and no parameter *)

\* the ArgRef at hand names no constant, no opcode and no parameter of the
\* macro it stands in
UnresolvedArgCall ==
    /\ AtItem("ArgCall")
    /\ find_constant(Cur.name, contract) = <<>>
    /\ Cur.name \notin OpcodeNames
    /\ ParamPos(TopDef.parameters, Cur.name) = 0

\* the offset of the nearest enclosing invocation, 0 without one
EnclosingOffset ==
    LET chain == ChainMis(Len(stack))
    IN IF chain = <<>> THEN 0 ELSE chain[Len(chain)].off

\* C16: such an ArgRef emits PUSH2 xxxx at the current offset and registers a
\* jump to its name under the offset of the nearest enclosing invocation,
\* inside an invocation as well as outside
C16_FallbackLabelCall ==
    [][UnresolvedArgCall =>
          /\ pc' = "expanding"
          /\ stack'[Len(stack)].bytes = Append(Top.bytes, Entry(Top.offset, Placeholder))
          /\ stack'[Len(stack)].offset = Top.offset + 3
          /\ EnclosingOffset \in DOMAIN stack'[Len(stack)].jump_table
          /\ \E i \in 1..Len(stack'[Len(stack)].jump_table[EnclosingOffset]) :
                stack'[Len(stack)].jump_table[EnclosingOffset][i].label = Cur.name]_vars

---------------------------------------------------------------------------
(* C17: the resolution order of an ArgRef *)

\* the step appends one entry b at the current offset and registers no jump
Pushed(b) ==
    /\ pc' = "expanding"
    /\ stack'[Len(stack)].bytes = Append(Top.bytes, Entry(Top.offset, b))
    /\ stack'[Len(stack)].offset = Top.offset + Len(b) \div 2
    /\ stack'[Len(stack)].jump_table = Top.jump_table

\* the argument the active invocation (the top of mis) passes for the name at
\* hand, if the name is a parameter of the macro and an invocation is active
ActiveArg ==
    LET pos == ParamPos(TopDef.parameters, Cur.name)
    IN IF mis = <<>> \/ pos = 0 \/ pos > Len(mis[Len(mis)].inv.args)
       THEN <<>>
       ELSE <<mis[Len(mis)].inv.args[pos]>>

\* the constant of the name at hand
NamedConstant == FindByName(contract.constants, Cur.name)

---------------------------------------------------------------------------
(* C18: the bytecode_index of an unmatched jump *)

\* the placeholders of label references the call at hand has emitted, its
\* merged invocations included
PlaceholderEvents(kinds) ==
    {Top.emitted[k] : k \in {n \in 1..Len(Top.emitted) : Top.emitted[n].kind \in kinds}}

\* the first n bytes of the entry of Top.bytes that starts at off
EntryAt(off, n) ==
    LET hits == {k \in 1..Len(Top.bytes) : Top.bytes[k].off = off}
    IN IF hits = {} THEN <<>>
       ELSE LET e == Top.bytes[CHOOSE k \in hits : TRUE]
            IN SubSeq(e.b, 1, IF 2 * n < Len(e.b) THEN 2 * n ELSE Len(e.b))

\* C18 as stated: the bytecode_index of an unmatched jump is one past the PUSH2
\* opcode of its placeholder, the offset of the first address byte
C18_IndexAfterOpcode ==
    (AtEnd /\ ~Filled.panic) =>
        \A i \in 1..Len(Returned.unmatched_jumps) :
            \E e \in PlaceholderEvents({"LabelRef", "Ident", "ArgFallback"}) :
                /\ e.name = Returned.unmatched_jumps[i].label
                /\ Returned.unmatched_jumps[i].bytecode_index = e.off + 1

\* C18 amended: the bytecode_index of an unmatched jump is the starting offset
\* of the bytes entry the jump was registered under. For a jump of a label call
\* or of a label passed as a macro argument that entry is its PUSH2 xxxx, so
\* the index is the offset of the PUSH2 opcode itself; for a jump of the ArgRef
\* fallback the index is 0
C18_IndexOfEntry ==
    (AtEnd /\ ~Filled.panic) =>
        \A i \in 1..Len(Returned.unmatched_jumps) :
            LET j == Returned.unmatched_jumps[i] IN
            /\ EntryAt(j.bytecode_index, 1) # <<>>
            /\ \/ /\ EntryAt(j.bytecode_index, 3) = Placeholder
                  /\ \E e \in PlaceholderEvents({"LabelRef", "Ident"}) :
                        e.name = j.label /\ e.off = j.bytecode_index
               \/ /\ j.bytecode_index = 0
                  /\ \E e \in PlaceholderEvents({"ArgFallback"}) : e.name = j.label

\* MAIN = { L1: A() } with A() = { L1 B() }, B() = { L2: L2 L1 } (the label L1
\* is unknown inside A and B): the jumps A returns as unmatched are those of
\* the two label calls of L1, at the offsets 1 and 8 of their PUSH2 opcodes
C18_Witness ==
    /\ AtEnd
    /\ ~Filled.panic
    /\ input = [lib |-> "labels", body |-> <<ILabel("L1"), IInvoke("A", <<>>)>>]
    /\ Top.macro_def = "A"
    /\ Returned.unmatched_jumps = <<Jump("L1", 1), Jump("L1", 8)>>

---------------------------------------------------------------------------
(* C19: the entries of a BytecodeRes are contiguous *)

\* the offset the k-th frame was called with
StartOf(k) == IF k = 1 THEN 0 ELSE stack[k - 1].offset

\* every entry starts where the entries before it end, the first one at o
Contiguous(bytes, o) ==
    \A k \in 1..Len(bytes) : bytes[k].off = o + ByteLen(SubSeq(bytes, 1, k - 1))

\* C19: the entries a call of macro_to_bytecode holds, the merged entries of
\* its invocations and the entries of resolved ArgRefs included, are contiguous
\* from the offset the call was given, and so are the entries it returns
C19_Contiguous ==
    Expanding =>
        /\ \A k \in 1..Len(stack) :
              /\ Contiguous(stack[k].bytes, StartOf(k))
              /\ stack[k].offset = StartOf(k) + ByteLen(stack[k].bytes)
        /\ (AtEnd /\ ~Filled.panic) =>
              Contiguous(Returned.bytes, StartOf(Len(stack)))

\* A(p) = { <p> B(<p>) } invoked behind a label: A returns, from offset 1, the
\* entry of its resolved argument and the entries merged from B
C19_Witness ==
    /\ AtEnd
    /\ ~Filled.panic
    /\ input = [lib |-> "args", body |-> <<ILabel("L1"), IInvoke("A", <<ALiteral(258)>>)>>]
    /\ Top.macro_def = "A"
    /\ StartOf(Len(stack)) = 1
    /\ Returned.bytes = <<Entry(1, <<6, 1, 0, 1, 0, 2>>), Entry(4, <<0, 1>>)>>

---------------------------------------------------------------------------
(* C20: a label defined by a macro that is invoked more than once *)

\* the offset of the last definition of label l among the events es
LastDefOffset(es, l) ==
    LET defs == {n \in 1..Len(es) : es[n].kind = "LabelDef" /\ es[n].name = l}
    IN es[CHOOSE n \in defs : \A x \in defs : x <= n].off

\* the label calls whose jump the call at hand holds when its loop has ended
PendingLabelRefs ==
    {r \in PlaceholderEvents({"LabelRef"}) :
        /\ r.off \in DOMAIN Top.jump_table
        /\ \E i \in 1..Len(Top.jump_table[r.off]) : Top.jump_table[r.off][i].label = r.name}

\* the bytes the call at hand returns for the entry at off
ReturnedAt(off) ==
    LET hits == {k \in 1..Len(Returned.bytes) : Returned.bytes[k].off = off}
    IN Returned.bytes[CHOOSE k \in hits : TRUE].b

\* C20: the fill of a call patches a label call of a label defined in that call
\* with the offset that call recorded for it, the JUMPDEST of this invocation
\* and not that of an earlier or later one; and where a label is defined more
\* than once among a call and its invocations, label_indices holds the offset
\* of the last definition only
C20_LocalFillLastWins ==
    Expanding =>
        /\ \A k \in 1..Len(stack) :
              /\ DOMAIN stack[k].label_indices =
                    {stack[k].emitted[n].name :
                        n \in {x \in 1..Len(stack[k].emitted) :
                                  stack[k].emitted[x].kind = "LabelDef"}}
              /\ \A l \in DOMAIN stack[k].label_indices :
                    stack[k].label_indices[l] = LastDefOffset(stack[k].emitted, l)
        /\ (AtEnd /\ ~Filled.panic) =>
              \A r \in PendingLabelRefs :
                  r.name \in DOMAIN Top.label_indices =>
                      ReturnedAt(r.off) =
                          Push2 \o FormatHex(LastDefOffset(Top.emitted, r.name), 4)

\* B() = { L2: L2 L1 } invoked twice behind L1: the call of L2 is patched with
\* 0001 in the first invocation and with 0008 in the second, and the label
\* indices of MAIN hold 8 for L2
C20_Witness ==
    /\ pc = "done"
    /\ entry = "MAIN"
    /\ input = [lib |-> "labels",
                body |-> <<ILabel("L1"), IInvoke("B", <<>>), IInvoke("B", <<>>)>>]
    /\ result.status = "ok"
    /\ result.bytecode = <<5, 11, 5, 11, 6, 1, 0, 0, 0, 1, 6, 1, 0, 0, 0, 0,
                           5, 11, 6, 1, 0, 0, 0, 8, 6, 1, 0, 0, 0, 0>>
    /\ result.res.label_indices["L2"] = 8

---------------------------------------------------------------------------
(* C21: what churn and abi_gen leave alone in the cached artifact *)

\* the artifact a call starts from: the cached one, or a default one that the
\* call creates when none is cached
StartingArtifact == IF artifact.some THEN artifact ELSE DefaultArtifact

\* C21: a call of churn leaves the abi of the artifact as it was and a call of
\* abi_gen leaves its bytecode, runtime and file as they were, whether its
\* export succeeds or not; a call without a cached artifact starts from the
\* default artifact, and an artifact is cached afterwards
C21_FrameEffects ==
    [][/\ artifact'.some
       /\ last'.op = "churn" => artifact'.abi = StartingArtifact.abi
       /\ last'.op = "abi_gen" =>
             /\ artifact'.bytecode = StartingArtifact.bytecode
             /\ artifact'.runtime = StartingArtifact.runtime
             /\ artifact'.file = StartingArtifact.file
             /\ artifact'.abi = <<AbiOf(last'.ast)>>]_vars

\* abi_gen has run on an artifact that churn filled before: the abi is stored
\* next to the bytecode, runtime and file of that churn
C21_Witness ==
    /\ last.op = "abi_gen"
    /\ artifact.abi = <<AbiOf("c1")>>
    /\ artifact.runtime = <<15, 10>>
    /\ Len(artifact.bytecode) = 2 * BootstrapLen + 2
    /\ artifact.file = "a.huff"

============================================================================
